---------------------------- MODULE Spec2Model ----------------------------
(***************************************************************************)
(* A model of database_insert.py: records are grouped by date, every group *)
(* is serialised (date as ISO text, JSON, UTF-8), compressed and stored as *)
(* one (group_date, blob) row; on read every row is decompressed, parsed   *)
(* and turned back into records, and the result is compared with the       *)
(* input.  Both the compression and the decompression run through          *)
(* multiprocessing.Pool.map.                                               *)
(*                                                                         *)
(* Python values are tagged records [t, v]: t is the Python type, v a      *)
(* sequence (the characters of a str as code points, the single number of  *)
(* an int, <<mantissa, scale>> of a float whose shortest repr is the       *)
(* decimal mantissa / 10^scale, <<year, month, day>> of a date, the        *)
(* elements of a list or a tuple).  Bytes are sequences of 0..255.         *)
(***************************************************************************)
EXTENDS Integers, Sequences, FiniteSets, TLC

(***************************************************************************)
(* Python values                                                           *)
(***************************************************************************)
None == [t |-> "None", v |-> <<>>]
PyStr(s) == [t |-> "str", v |-> s]
PyInt(n) == [t |-> "int", v |-> <<n>>]
PyList(xs) == [t |-> "list", v |-> xs]
PyTuple(xs) == [t |-> "tuple", v |-> xs]
PyDate(y, m, d) == [t |-> "date", v |-> <<y, m, d>>]

RECURSIVE Pow10(_)
Pow10(k) == IF k = 0 THEN 1 ELSE 10 * Pow10(k - 1)

\* The float whose shortest decimal representation is m / 10^k.
RECURSIVE PyFloat(_, _)
PyFloat(m, k) ==
    IF k > 0 /\ m % 10 = 0 THEN PyFloat(m \div 10, k - 1)
    ELSE [t |-> "float", v |-> <<m, k>>]

\* A call's outcome: the value returned, or the exception raised.
Return(x) == [ok |-> TRUE, val |-> x, err |-> "none"]
Raise(e) == [ok |-> FALSE, val |-> None, err |-> e]

\* The code points of the characters the serialised text is made of.
Ord ==
    "[" :> 91 @@ "]" :> 93 @@ "q" :> 34 @@ "," :> 44 @@ " " :> 32 @@
    "-" :> 45 @@ "." :> 46 @@ "0" :> 48 @@ "9" :> 57

IsDigit(c) == c >= Ord["0"] /\ c <= Ord["9"]

RECURSIVE Digits(_)
Digits(n) ==
    IF n < 10 THEN <<Ord["0"] + n>>
    ELSE Digits(n \div 10) \o <<Ord["0"] + (n % 10)>>

\* "%0<w>d" % n
RECURSIVE ZeroPad(_, _)
ZeroPad(n, w) ==
    LET ds == Digits(n)
    IN  IF Len(ds) >= w THEN ds ELSE <<Ord["0"]>> \o ZeroPad(n, w - 1)

\* int() of a non-empty run of decimal digits
RECURSIVE NatOf(_)
NatOf(ds) ==
    IF Len(ds) = 0 THEN 0
    ELSE 10 * NatOf(SubSeq(ds, 1, Len(ds) - 1)) + (ds[Len(ds)] - Ord["0"])

AllDigits(ds) == \A k \in 1..Len(ds) : IsDigit(ds[k])

(***************************************************************************)
(* datetime.date                                                           *)
(***************************************************************************)
IsLeap(y) == (y % 4 = 0) /\ ((y % 100 # 0) \/ (y % 400 = 0))

DaysInMonth(y, m) ==
    IF m = 2 THEN (IF IsLeap(y) THEN 29 ELSE 28)
    ELSE IF m \in {4, 6, 9, 11} THEN 30 ELSE 31

\* Mutant: the date written without zero padding ("%d-%d-%d").
isoformat_Unpadded(d) ==
    Digits(d.v[1]) \o <<Ord["-"]>> \o Digits(d.v[2]) \o <<Ord["-"]>>
        \o Digits(d.v[3])

\* date.isoformat(): "%04d-%02d-%02d"
isoformat(d) ==
    ZeroPad(d.v[1], 4) \o <<Ord["-"]>> \o ZeroPad(d.v[2], 2) \o <<Ord["-"]>>
        \o ZeroPad(d.v[3], 2)

\* date.fromisoformat(x): x must be a str of the form YYYY-MM-DD naming a
\* day of the calendar.
fromisoformat(x) ==
    IF x.t # "str" THEN Raise("TypeError")
    ELSE LET s == x.v
         IN  IF /\ Len(s) = 10
                /\ s[5] = Ord["-"]
                /\ s[8] = Ord["-"]
                /\ AllDigits(SubSeq(s, 1, 4))
                /\ AllDigits(SubSeq(s, 6, 7))
                /\ AllDigits(SubSeq(s, 9, 10))
             THEN LET y == NatOf(SubSeq(s, 1, 4))
                      m == NatOf(SubSeq(s, 6, 7))
                      d == NatOf(SubSeq(s, 9, 10))
                  IN  IF /\ y >= 1
                         /\ m >= 1
                         /\ m <= 12
                         /\ d >= 1
                         /\ d <= DaysInMonth(y, m)
                      THEN Return(PyDate(y, m, d))
                      ELSE Raise("ValueError")
             ELSE Raise("ValueError")

(***************************************************************************)
(* json.dumps / json.loads, restricted to the grammar compress_group       *)
(* emits: arrays, strings without escapes, unsigned decimal numbers.       *)
(***************************************************************************)
\* Mutant: the fraction written without its leading zeros.
float_repr_NoPad(x) ==
    LET m == x.v[1]
        k == x.v[2]
    IN  IF k = 0 THEN Digits(m) \o <<Ord["."], Ord["0"]>>
        ELSE Digits(m \div Pow10(k)) \o <<Ord["."]>> \o Digits(m % Pow10(k))

\* float.__repr__ for a value below 1e16
float_repr(x) ==
    LET m == x.v[1]
        k == x.v[2]
    IN  IF k = 0 THEN Digits(m) \o <<Ord["."], Ord["0"]>>
        ELSE Digits(m \div Pow10(k)) \o <<Ord["."]>> \o ZeroPad(m % Pow10(k), k)

RECURSIVE json_dumps(_), json_join(_)
json_join(xs) ==
    IF Len(xs) = 0 THEN <<>>
    ELSE IF Len(xs) = 1 THEN json_dumps(xs[1])
    ELSE json_dumps(xs[1]) \o <<Ord[","], Ord[" "]>> \o json_join(Tail(xs))

\* json.dumps(x) with the default separators; a tuple is written as an
\* array, like a list.
json_dumps(x) ==
    CASE x.t = "str" -> <<Ord["q"]>> \o x.v \o <<Ord["q"]>>
      [] x.t = "int" -> Digits(x.v[1])
      [] x.t = "float" -> float_repr(x)
      [] x.t \in {"list", "tuple"} -> <<Ord["["]>> \o json_join(x.v) \o <<Ord["]"]>>

Parsed(x, i) == [ok |-> TRUE, val |-> x, next |-> i]
NoParse == [ok |-> FALSE, val |-> None, next |-> 0]

RECURSIVE SkipWs(_, _)
SkipWs(s, i) ==
    IF i <= Len(s) /\ s[i] \in {32, 9, 10, 13} THEN SkipWs(s, i + 1) ELSE i

\* The index of the first character at or after i that is not a digit.
RECURSIVE DigitsEnd(_, _)
DigitsEnd(s, i) ==
    IF i <= Len(s) /\ IsDigit(s[i]) THEN DigitsEnd(s, i + 1) ELSE i

\* The index of the closing quote at or after i, or 0.
RECURSIVE QuoteAt(_, _)
QuoteAt(s, i) ==
    IF i > Len(s) THEN 0
    ELSE IF s[i] = Ord["q"] THEN i
    ELSE QuoteAt(s, i + 1)

ParseString(s, i) ==
    LET j == QuoteAt(s, i + 1)
    IN  IF j = 0 THEN NoParse
        ELSE Parsed(PyStr(SubSeq(s, i + 1, j - 1)), j + 1)

ParseNumber(s, i) ==
    LET j == DigitsEnd(s, i)
    IN  IF j <= Len(s) /\ s[j] = Ord["."]
        THEN LET k == DigitsEnd(s, j + 1)
             IN  IF k = j + 1 THEN NoParse
                 ELSE Parsed(PyFloat(NatOf(SubSeq(s, i, j - 1)
                                           \o SubSeq(s, j + 1, k - 1)),
                                     k - j - 1), k)
        ELSE Parsed(PyInt(NatOf(SubSeq(s, i, j - 1))), j)

RECURSIVE ParseValue(_, _), ParseElems(_, _, _)
\* The elements of an array from index i on, acc the elements read so far.
ParseElems(s, i, acc) ==
    LET e == ParseValue(s, i)
        j == SkipWs(s, e.next)
    IN  IF ~e.ok \/ j > Len(s) THEN NoParse
        ELSE IF s[j] = Ord[","]
             THEN ParseElems(s, SkipWs(s, j + 1), Append(acc, e.val))
        ELSE IF s[j] = Ord["]"]
             THEN Parsed(PyList(Append(acc, e.val)), j + 1)
        ELSE NoParse

ParseValue(s, i) ==
    IF i > Len(s) THEN NoParse
    ELSE IF s[i] = Ord["["]
         THEN LET j == SkipWs(s, i + 1)
              IN  IF j > Len(s) THEN NoParse
                  ELSE IF s[j] = Ord["]"] THEN Parsed(PyList(<<>>), j + 1)
                  ELSE ParseElems(s, j, <<>>)
    ELSE IF s[i] = Ord["q"] THEN ParseString(s, i)
    ELSE IF IsDigit(s[i]) THEN ParseNumber(s, i)
    ELSE NoParse

\* json.loads(s): one value, white space around it, nothing after it.
json_loads(s) ==
    LET p == ParseValue(s, SkipWs(s, 1))
    IN  IF p.ok /\ SkipWs(s, p.next) = Len(s) + 1 THEN Return(p.val)
        ELSE Raise("JSONDecodeError")

\* str.encode('utf-8') of ASCII text, and bytes.decode('utf-8').
utf8_encode(s) == s
utf8_decode(b) ==
    IF \A k \in 1..Len(b) : b[k] < 128 THEN Return(b)
    ELSE Raise("UnicodeDecodeError")

(***************************************************************************)
(* zlib.  A stream is the two header bytes, a DEFLATE body and the         *)
(* Adler-32 checksum of the uncompressed data.  The DEFLATE body is        *)
(* written with stored blocks (what zlib writes at level 0); the Huffman   *)
(* coded blocks of the other levels are a different body inside the same   *)
(* framing and are not modelled: a block that announces one is rejected.   *)
(***************************************************************************)
PyBytes(b) == [t |-> "bytes", v |-> b]

\* The sum of f[lo..hi], by halves.
RECURSIVE SumRange(_, _, _)
SumRange(f, lo, hi) ==
    IF lo > hi THEN 0
    ELSE IF lo = hi THEN f[lo]
    ELSE LET mid == (lo + hi) \div 2
         IN  SumRange(f, lo, mid) + SumRange(f, mid + 1, hi)

\* <<a, b>> of Adler-32 over data: a starts at 1 and adds every byte, b
\* starts at 0 and adds every a, both modulo 65521; so a is 1 plus the
\* bytes and b is the length plus every byte times the number of bytes
\* from it to the end.
Adler(data) ==
    LET n == Len(data)
    IN  <<(1 + SumRange(data, 1, n)) % 65521,
          (n + SumRange([k \in 1..n |-> (n - k + 1) * data[k]], 1, n)) % 65521>>

\* The checksum as its four bytes, most significant first.
Adler32Bytes(data) ==
    LET p == Adler(data)
    IN  <<p[2] \div 256, p[2] % 256, p[1] \div 256, p[1] % 256>>

\* zlib.compress(data): header, one final stored block (LEN and its
\* complement, least significant byte first), checksum.
zlib_compress(data) ==
    LET n == Len(data)
        c == 65535 - n
    IN  <<120, 1>> \o <<1, n % 256, n \div 256, c % 256, c \div 256>> \o data
            \o Adler32Bytes(data)

\* The stored blocks from index i on, acc the data read so far: the data
\* and the index after the final block, or no parse.
RECURSIVE InflateStored(_, _, _)
InflateStored(b, i, acc) ==
    IF i + 4 > Len(b) THEN NoParse
    ELSE LET bfinal == b[i] % 2
             btype == (b[i] \div 2) % 4
             n == b[i + 1] + 256 * b[i + 2]
             c == b[i + 3] + 256 * b[i + 4]
         IN  IF btype # 0 \/ n + c # 65535 \/ i + 4 + n > Len(b) THEN NoParse
             ELSE LET out == acc \o SubSeq(b, i + 5, i + 4 + n)
                  IN  IF bfinal = 1 THEN Parsed(out, i + 5 + n)
                      ELSE InflateStored(b, i + 5 + n, out)

\* Mutant: the checksum is not compared.
zlib_decompress_NoChecksum(b) ==
    IF Len(b) < 2 THEN Raise("zlib.error")
    ELSE IF \/ b[1] % 16 # 8
            \/ b[1] \div 16 > 7
            \/ (b[2] \div 32) % 2 # 0
            \/ (256 * b[1] + b[2]) % 31 # 0
         THEN Raise("zlib.error")
    ELSE LET p == InflateStored(b, 3, <<>>)
         IN  IF ~p.ok \/ p.next + 3 > Len(b) THEN Raise("zlib.error")
             ELSE Return(p.val)

\* zlib.decompress(b): the header must name DEFLATE with a window of at
\* most 32K, no preset dictionary and a check value that makes the two
\* bytes a multiple of 31; the stream must be complete and the checksum
\* must match.  Bytes after the checksum are ignored.
zlib_decompress(b) ==
    IF Len(b) < 2 THEN Raise("zlib.error")
    ELSE IF \/ b[1] % 16 # 8
            \/ b[1] \div 16 > 7
            \/ (b[2] \div 32) % 2 # 0
            \/ (256 * b[1] + b[2]) % 31 # 0
         THEN Raise("zlib.error")
    ELSE LET p == InflateStored(b, 3, <<>>)
         IN  IF ~p.ok \/ p.next + 3 > Len(b) THEN Raise("zlib.error")
             ELSE IF SubSeq(b, p.next, p.next + 3) # Adler32Bytes(p.val)
                  THEN Raise("zlib.error")
             ELSE Return(p.val)

(***************************************************************************)
(* The worker functions                                                    *)
(***************************************************************************)
\* [r[0].isoformat()] + list(r[1:])
StrDate(r) == PyList(<<PyStr(isoformat(r.v[1]))>> \o Tail(r.v))

\* compress_group(group): group is the tuple (group_date, recs_in_group).
compress_group(group) ==
    LET group_date == group.v[1]
        recs_in_group == group.v[2]
        recs_as_str_date ==
            PyList([k \in 1..Len(recs_in_group.v) |-> StrDate(recs_in_group.v[k])])
        serialized_data == utf8_encode(json_dumps(recs_as_str_date))
        compressed_data == zlib_compress(serialized_data)
    IN  Return(PyTuple(<<group_date, PyBytes(compressed_data)>>))

\* The loop of decompress_group over rs, the elements of recs_from_blob
\* not yet visited; reconstructed_records holds the records built so far.
RECURSIVE Reconstruct(_, _)
Reconstruct(rs, reconstructed_records) ==
    IF Len(rs) = 0 THEN Return(PyList(reconstructed_records))
    ELSE LET r == rs[1]
         IN  IF r.t # "list" THEN Raise("TypeError")
             ELSE IF Len(r.v) = 0 THEN Raise("IndexError")
             ELSE LET d == fromisoformat(r.v[1])
                  IN  IF ~d.ok THEN Raise(d.err)
                      ELSE Reconstruct(Tail(rs),
                               Append(reconstructed_records,
                                      PyTuple(<<d.val>> \o Tail(r.v))))

\* decompress_group(row): row is the tuple (group_date, compressed_data).
decompress_group(row) ==
    LET decompressed_data == zlib_decompress(row.v[2].v)
    IN  IF ~decompressed_data.ok THEN Raise(decompressed_data.err)
        ELSE LET text == utf8_decode(decompressed_data.val)
             IN  IF ~text.ok THEN Raise(text.err)
                 ELSE LET recs_from_blob == json_loads(text.val)
                      IN  IF ~recs_from_blob.ok THEN Raise(recs_from_blob.err)
                          ELSE IF recs_from_blob.val.t # "list"
                               THEN Raise("TypeError")
                          ELSE Reconstruct(recs_from_blob.val.v, <<>>)

(***************************************************************************)
(* sqlite3: a date bound to a parameter is adapted to its ISO text, a      *)
(* column declared DATE is converted back on read (PARSE_DECLTYPES), a     *)
(* BLOB comes back as the bytes that were bound.                           *)
(***************************************************************************)
\* bytes.split(sep): the runs of s between the occurrences of sep.
RECURSIVE Split(_, _, _)
Split(s, sep, cur) ==
    IF Len(s) = 0 THEN <<cur>>
    ELSE IF s[1] = sep THEN <<cur>> \o Split(Tail(s), sep, <<>>)
    ELSE Split(Tail(s), sep, Append(cur, s[1]))

\* Mutant: the date adapted as year-day-month.
adapt_date_DayFirst(val) ==
    PyStr(ZeroPad(val.v[1], 4) \o <<Ord["-"]>> \o ZeroPad(val.v[3], 2)
              \o <<Ord["-"]>> \o ZeroPad(val.v[2], 2))

adapt_date(val) == PyStr(isoformat(val))

\* datetime.date(*map(int, val.split(b"-")))
convert_date(val) ==
    LET parts == Split(val.v, Ord["-"], <<>>)
    IN  IF \E k \in 1..Len(parts) : Len(parts[k]) = 0 \/ ~AllDigits(parts[k])
        THEN Raise("ValueError")
        ELSE IF Len(parts) # 3 THEN Raise("TypeError")
        ELSE LET y == NatOf(parts[1])
                 m == NatOf(parts[2])
                 d == NatOf(parts[3])
             IN  IF /\ y >= 1
                    /\ y <= 9999
                    /\ m >= 1
                    /\ m <= 12
                    /\ d >= 1
                    /\ d <= DaysInMonth(y, m)
                 THEN Return(PyDate(y, m, d))
                 ELSE Raise("ValueError")

\* The row INSERT INTO compressed_data VALUES (?, ?) stores for res.
StoredRow(res) == PyTuple(<<adapt_date(res.v[1]), res.v[2]>>)

\* The row SELECT group_date, data returns for a stored row.
FetchedRow(row) == PyTuple(<<convert_date(row.v[1]).val, row.v[2]>>)

(***************************************************************************)
(* sorted() and == on lists of records                                     *)
(***************************************************************************)
\* s < t for two sequences of numbers, as Python orders str and date.
RECURSIVE SeqLess(_, _)
SeqLess(s, t) ==
    IF Len(t) = 0 THEN FALSE
    ELSE IF Len(s) = 0 THEN TRUE
    ELSE IF s[1] # t[1] THEN s[1] < t[1]
    ELSE SeqLess(Tail(s), Tail(t))

\* a < b for two values of one type.
RECURSIVE PyLess(_, _), TupleLess(_, _)
TupleLess(s, t) ==
    IF Len(t) = 0 THEN FALSE
    ELSE IF Len(s) = 0 THEN TRUE
    ELSE IF s[1] # t[1] THEN PyLess(s[1], t[1])
    ELSE TupleLess(Tail(s), Tail(t))

PyLess(a, b) ==
    IF a.t = "float"
    THEN a.v[1] * Pow10(b.v[2]) < b.v[1] * Pow10(a.v[2])
    ELSE IF a.t \in {"tuple", "list"} THEN TupleLess(a.v, b.v)
    ELSE SeqLess(a.v, b.v)

\* xs, sorted, with x put before the first element greater than it.
RECURSIVE InsertSorted(_, _)
InsertSorted(x, xs) ==
    IF Len(xs) = 0 THEN <<x>>
    ELSE IF PyLess(x, xs[1]) THEN <<x>> \o xs
    ELSE <<xs[1]>> \o InsertSorted(x, Tail(xs))

RECURSIVE sorted(_)
sorted(xs) ==
    IF Len(xs) = 0 THEN <<>>
    ELSE InsertSorted(xs[Len(xs)], sorted(SubSeq(xs, 1, Len(xs) - 1)))

(***************************************************************************)
(* Bounds and inputs                                                       *)
(***************************************************************************)
\* The longest input drawn record by record.
MaxRecords == 3
\* The largest cpu_count().
MaxWorkers == 2

BUY == PyStr(<<66, 85, 89>>)
SELL == PyStr(<<83, 69, 76, 76>>)
ABCD == PyStr(<<65, 66, 67, 68>>)
WXYZ == PyStr(<<87, 88, 89, 90>>)

Dates == {PyDate(2023, 5, 1), PyDate(2023, 5, 2), PyDate(2022, 12, 28)}

\* (trans, symbol, qty, price): a price with two decimals, and one that
\* repr writes with a single decimal.
Payloads == {<<BUY, ABCD, PyInt(100), PyFloat(1234, 2)>>,
             <<SELL, WXYZ, PyInt(50), PyFloat(9990, 2)>>}

\* The records inputs are drawn from: two of one date, so that a group can
\* hold different records, and one of each other date.
Records ==
    {PyTuple(<<d>> \o p) : d \in Dates, p \in Payloads}
        \ {PyTuple(<<PyDate(2023, 5, 2), BUY, ABCD, PyInt(100), PyFloat(1234, 2)>>),
           PyTuple(<<PyDate(2022, 12, 28), SELL, WXYZ, PyInt(50), PyFloat(9990, 2)>>)}

RECURSIVE SeqsUpTo(_, _)
SeqsUpTo(S, n) ==
    IF n = 0 THEN {<<>>}
    ELSE LET shorter == SeqsUpTo(S, n - 1)
         IN  shorter \cup {Append(q, x) : q \in shorter, x \in S}

\* The scenario of the specification's section 8.
Scenario ==
    <<PyTuple(<<PyDate(2023, 5, 1), BUY, ABCD, PyInt(100), PyFloat(1234, 2)>>),
      PyTuple(<<PyDate(2023, 5, 1), SELL, WXYZ, PyInt(50), PyFloat(9999, 2)>>),
      PyTuple(<<PyDate(2023, 5, 2), BUY, ABCD, PyInt(10), PyFloat(500, 2)>>)>>

\* Five dates, each with one record: more groups than four per worker, so
\* that a single worker is handed chunks of two.
ManyDates ==
    [k \in 1..5 |->
        PyTuple(<<PyDate(2024, 2, 24 + k), BUY, ABCD, PyInt(10 + k),
                  PyFloat(1000 + k, 2)>>)]

Inputs == SeqsUpTo(Records, MaxRecords) \cup {Scenario, ManyDates}

(***************************************************************************)
(* State                                                                   *)
(***************************************************************************)
VARIABLES
    records,                \* the list generate_records returned
    num_processes,          \* cpu_count()
    pc,                     \* where main is
    next_rec,               \* records the grouping loop has visited
    grouped_records,        \* the dict's items, in insertion order
    pool_func,              \* the function the pool is mapping
    pool_chunksize,         \* the chunk size of the map in progress
    inqueue,                \* tasks no worker has taken yet
    running,                \* the task each worker holds
    outqueue,               \* results the result handler has not seen yet
    map_value,              \* MapResult._value
    map_number_left,        \* MapResult._number_left
    map_success,            \* MapResult._success
    map_error,              \* the exception a failed MapResult holds
    results_from_pool,      \* what pool.map returned
    compressed_data,        \* the rows of table compressed_data
    store_intact,           \* no byte of the database file has been damaged
    compressed_rows,        \* what fetchall returned
    all_retrieved_records,  \* the flattened records
    verification,           \* the line the verification printed
    exception,              \* the exception that ended main
    codec                   \* one group taken through the two worker functions

vars ==
    <<records, num_processes, pc, next_rec, grouped_records, pool_func,
      pool_chunksize, inqueue, running, outqueue, map_value, map_number_left,
      map_success, map_error, results_from_pool, compressed_data,
      store_intact, compressed_rows, all_retrieved_records, verification,
      exception, codec>>

poolVars ==
    <<pool_func, pool_chunksize, inqueue, running, outqueue, map_value,
      map_number_left, map_success, map_error>>

dataVars ==
    <<records, num_processes, next_rec, grouped_records, results_from_pool,
      compressed_data, store_intact, compressed_rows, all_retrieved_records,
      verification, exception, codec>>

Idle == [i |-> -1, chunk |-> <<>>]

NoCodec ==
    [pc |-> "off", group |-> None, row |-> None, damaged |-> FALSE,
     result |-> Raise("none")]

Init ==
    /\ records \in Inputs
    /\ num_processes \in 1..MaxWorkers
    /\ pc = "group"
    /\ next_rec = 0
    /\ grouped_records = <<>>
    /\ pool_func = "none"
    /\ pool_chunksize = 0
    /\ inqueue = <<>>
    /\ running = [w \in 1..num_processes |-> Idle]
    /\ outqueue = <<>>
    /\ map_value = <<>>
    /\ map_number_left = 0
    /\ map_success = TRUE
    /\ map_error = "none"
    /\ results_from_pool = <<>>
    /\ compressed_data = <<>>
    /\ store_intact = TRUE
    /\ compressed_rows = <<>>
    /\ all_retrieved_records = <<>>
    /\ verification = "none"
    /\ exception = "none"
    /\ codec = NoCodec

(***************************************************************************)
(* Grouping: grouped_records[rec[0]].append(rec)                           *)
(***************************************************************************)
HasKey(groups, key) == \E k \in 1..Len(groups) : groups[k].v[1] = key

\* Mutant: grouped_records[rec[0]] = [rec], the list replaced, not extended.
AppendToGroup_Overwrite(groups, rec) ==
    IF \E k \in 1..Len(groups) : groups[k].v[1] = rec.v[1]
    THEN [k \in 1..Len(groups) |->
            IF groups[k].v[1] = rec.v[1]
            THEN PyTuple(<<groups[k].v[1], PyList(<<rec>>)>>)
            ELSE groups[k]]
    ELSE Append(groups, PyTuple(<<rec.v[1], PyList(<<rec>>)>>))

AppendToGroup(groups, rec) ==
    IF HasKey(groups, rec.v[1])
    THEN [k \in 1..Len(groups) |->
            IF groups[k].v[1] = rec.v[1]
            THEN PyTuple(<<groups[k].v[1],
                           PyList(Append(groups[k].v[2].v, rec))>>)
            ELSE groups[k]]
    ELSE Append(groups, PyTuple(<<rec.v[1], PyList(<<rec>>)>>))

GroupStep ==
    /\ pc = "group"
    /\ next_rec < Len(records)
    /\ grouped_records' = AppendToGroup(grouped_records, records[next_rec + 1])
    /\ next_rec' = next_rec + 1
    /\ UNCHANGED <<records, num_processes, pc, results_from_pool,
                   compressed_data, store_intact, compressed_rows,
                   all_retrieved_records, verification, exception, codec>>
    /\ UNCHANGED poolVars

(***************************************************************************)
(* multiprocessing.Pool.map(func, iterable): the items are cut into        *)
(* chunks, every chunk is one task; a worker takes a task, applies func to *)
(* its items in order and sends back the list of results, or the first     *)
(* exception; the result handler stores every chunk's results at the       *)
(* chunk's place; map returns once every task has reported.  Items and     *)
(* results cross the process boundary pickled; the dates, strings,         *)
(* numbers, bytes, lists and tuples they are made of arrive as they were   *)
(* sent, and the transport is not modelled further.                        *)
(***************************************************************************)
Apply(func, item) ==
    IF func = "compress_group" THEN compress_group(item)
    ELSE decompress_group(item)

\* Mutant: the quotient is not rounded up.
ChunkSize_NoRoundUp(n, workers) == n \div (workers * 4)

\* divmod(len(iterable), len(pool) * 4), rounded up; 0 for no items.
ChunkSize(n, workers) ==
    IF n = 0 THEN 0
    ELSE (n \div (workers * 4)) + (IF n % (workers * 4) = 0 THEN 0 ELSE 1)

NumChunks(n, chunksize) ==
    IF chunksize = 0 THEN 0
    ELSE (n \div chunksize) + (IF n % chunksize = 0 THEN 0 ELSE 1)

Min(a, b) == IF a < b THEN a ELSE b

\* Pool._get_tasks: task i holds the items i*size .. (i+1)*size - 1.
GetTasks(items, size) ==
    [k \in 1..NumChunks(Len(items), size) |->
        [i |-> k - 1,
         chunk |-> SubSeq(items, (k - 1) * size + 1,
                          Min(k * size, Len(items)))]]

\* Mutant: an item whose transformation raises is skipped.
RECURSIVE MapStar_SkipFailed(_, _, _)
MapStar_SkipFailed(func, chunk, acc) ==
    IF Len(chunk) = 0 THEN Return(acc)
    ELSE LET r == Apply(func, chunk[1])
         IN  IF r.ok
             THEN MapStar_SkipFailed(func, Tail(chunk), Append(acc, r.val))
             ELSE MapStar_SkipFailed(func, Tail(chunk), acc)

\* mapstar: list(map(func, chunk)), acc the results so far.
RECURSIVE MapStar(_, _, _)
MapStar(func, chunk, acc) ==
    IF Len(chunk) = 0 THEN Return(acc)
    ELSE LET r == Apply(func, chunk[1])
         IN  IF r.ok THEN MapStar(func, Tail(chunk), Append(acc, r.val))
             ELSE Raise(r.err)

\* What a worker puts on the result queue for a task.
TaskResult(func, task) ==
    LET r == MapStar(func, task.chunk, <<>>)
    IN  [i |-> task.i, success |-> r.ok,
         value |-> IF r.ok THEN r.val ELSE <<>>, err |-> r.err]

\* Mutant: value[i:i+chunksize] = result, the chunk's number taken for the
\* place of its first item.
SetSlice_AtIndex(value, i, chunksize, result) ==
    [k \in 1..Len(value) |->
        IF k > i /\ k <= i + Len(result) THEN result[k - i] ELSE value[k]]

\* value[i*chunksize:(i+1)*chunksize] = result
SetSlice(value, i, chunksize, result) ==
    [k \in 1..Len(value) |->
        IF k > i * chunksize /\ k <= i * chunksize + Len(result)
        THEN result[k - i * chunksize]
        ELSE value[k]]

\* pool.map is called with items: the tasks are queued, the MapResult is
\* created.
Submit(func, items) ==
    /\ pool_func' = func
    /\ pool_chunksize' = ChunkSize(Len(items), num_processes)
    /\ inqueue' = GetTasks(items, ChunkSize(Len(items), num_processes))
    /\ map_value' = [k \in 1..Len(items) |-> None]
    /\ map_number_left' =
           NumChunks(Len(items), ChunkSize(Len(items), num_processes))
    /\ map_success' = TRUE
    /\ map_error' = "none"
    /\ UNCHANGED <<running, outqueue>>

\* Line 114-116, up to the point where pool.map waits.
CompressSubmit ==
    /\ pc = "group"
    /\ next_rec = Len(records)
    /\ Submit("compress_group", grouped_records)
    /\ pc' = "compress_map"
    /\ UNCHANGED dataVars

\* worker: task = get()
WorkerGet(w) ==
    /\ running[w] = Idle
    /\ inqueue # <<>>
    /\ running' = [running EXCEPT ![w] = Head(inqueue)]
    /\ inqueue' = Tail(inqueue)
    /\ UNCHANGED <<pool_func, pool_chunksize, outqueue, map_value,
                   map_number_left, map_success, map_error, pc>>
    /\ UNCHANGED dataVars

\* worker: result = (True, func(*args)) or (False, e); put((job, i, result))
WorkerPut(w) ==
    /\ running[w] # Idle
    /\ outqueue' = Append(outqueue, TaskResult(pool_func, running[w]))
    /\ running' = [running EXCEPT ![w] = Idle]
    /\ UNCHANGED <<pool_func, pool_chunksize, inqueue, map_value,
                   map_number_left, map_success, map_error, pc>>
    /\ UNCHANGED dataVars

\* result handler: MapResult._set(i, (success, value))
HandleResult ==
    /\ outqueue # <<>>
    /\ LET res == Head(outqueue)
       IN  /\ map_number_left' = map_number_left - 1
           /\ map_value' =
                  IF res.success /\ map_success
                  THEN SetSlice(map_value, res.i, pool_chunksize, res.value)
                  ELSE map_value
           /\ map_success' = (map_success /\ res.success)
           /\ map_error' =
                  IF ~res.success /\ map_success THEN res.err ELSE map_error
    /\ outqueue' = Tail(outqueue)
    /\ UNCHANGED <<pool_func, pool_chunksize, inqueue, running, pc>>
    /\ UNCHANGED dataVars

\* Mutant: the value is read without waiting.
MapReady_Eager == TRUE

\* MapResult.get(): the value once every task has reported, or the first
\* exception raised in the caller.
MapReady == map_number_left = 0

\* pool.map returns at line 116, or raises.
CompressReturn ==
    /\ pc = "compress_map"
    /\ MapReady
    /\ IF map_success
       THEN /\ results_from_pool' = map_value
            /\ pc' = "insert"
            /\ UNCHANGED exception
       ELSE /\ exception' = map_error
            /\ pc' = "failed"
            /\ UNCHANGED results_from_pool
    /\ UNCHANGED <<records, num_processes, next_rec, grouped_records,
                   compressed_data, store_intact, compressed_rows,
                   all_retrieved_records, verification, codec>>
    /\ UNCHANGED poolVars

\* Lines 119-123: the rows are inserted and committed.
Insert ==
    /\ pc = "insert"
    /\ compressed_data' =
           compressed_data
               \o [k \in 1..Len(results_from_pool) |->
                       StoredRow(results_from_pool[k])]
    /\ pc' = "select"
    /\ UNCHANGED <<records, num_processes, next_rec, grouped_records,
                   results_from_pool, store_intact, compressed_rows,
                   all_retrieved_records, verification, exception, codec>>
    /\ UNCHANGED poolVars

\* Lines 139-140: SELECT group_date, data; fetchall().
Select ==
    /\ pc = "select"
    /\ IF \A k \in 1..Len(compressed_data) :
              convert_date(compressed_data[k].v[1]).ok
       THEN /\ compressed_rows' =
                   [k \in 1..Len(compressed_data) |->
                       FetchedRow(compressed_data[k])]
            /\ pc' = "decompress_submit"
            /\ UNCHANGED exception
       ELSE /\ exception' = "ValueError"
            /\ pc' = "failed"
            /\ UNCHANGED compressed_rows
    /\ UNCHANGED <<records, num_processes, next_rec, grouped_records,
                   results_from_pool, compressed_data, store_intact,
                   all_retrieved_records, verification, codec>>
    /\ UNCHANGED poolVars

\* Lines 142-144, up to the point where pool.map waits.
DecompressSubmit ==
    /\ pc = "decompress_submit"
    /\ Submit("decompress_group", compressed_rows)
    /\ pc' = "decompress_map"
    /\ UNCHANGED dataVars

\* pool.map returns at line 144, or raises.
DecompressReturn ==
    /\ pc = "decompress_map"
    /\ MapReady
    /\ IF map_success
       THEN /\ results_from_pool' = map_value
            /\ pc' = "flatten"
            /\ UNCHANGED exception
       ELSE /\ exception' = map_error
            /\ pc' = "failed"
            /\ UNCHANGED results_from_pool
    /\ UNCHANGED <<records, num_processes, next_rec, grouped_records,
                   compressed_data, store_intact, compressed_rows,
                   all_retrieved_records, verification, codec>>
    /\ UNCHANGED poolVars

\* [item for sublist in lists for item in sublist]
RECURSIVE Flatten(_)
Flatten(lists) ==
    IF Len(lists) = 0 THEN <<>> ELSE lists[1].v \o Flatten(Tail(lists))

\* Line 147.
FlattenStep ==
    /\ pc = "flatten"
    /\ all_retrieved_records' = Flatten(results_from_pool)
    /\ pc' = "verify"
    /\ UNCHANGED <<records, num_processes, next_rec, grouped_records,
                   results_from_pool, compressed_data, store_intact,
                   compressed_rows, verification, exception, codec>>
    /\ UNCHANGED poolVars

\* Mutant: an empty result counts as a failure.
VerificationLine_Truthy(original, retrieved) ==
    IF Len(retrieved) > 0 /\ sorted(original) = sorted(retrieved)
    THEN "successful" ELSE "FAILED"

\* if sorted(records) == sorted(all_retrieved_records): the line printed.
VerificationLine(original, retrieved) ==
    IF sorted(original) = sorted(retrieved) THEN "successful" ELSE "FAILED"

\* Lines 154-157.
Verify ==
    /\ pc = "verify"
    /\ verification' = VerificationLine(records, all_retrieved_records)
    /\ pc' = "done"
    /\ UNCHANGED <<records, num_processes, next_rec, grouped_records,
                   results_from_pool, compressed_data, store_intact,
                   compressed_rows, all_retrieved_records, exception,
                   codec>>
    /\ UNCHANGED poolVars

Next ==
    \/ GroupStep
    \/ CompressSubmit
    \/ \E w \in 1..num_processes : WorkerGet(w)
    \/ \E w \in 1..num_processes : WorkerPut(w)
    \/ HandleResult
    \/ CompressReturn
    \/ Insert
    \/ Select
    \/ DecompressSubmit
    \/ DecompressReturn
    \/ FlattenStep
    \/ Verify

Spec == Init /\ [][Next]_vars

(***************************************************************************)
(* Damage to a stored blob: cut short, or one bit flipped.                 *)
(***************************************************************************)
RECURSIVE Pow2(_)
Pow2(k) == IF k = 0 THEN 1 ELSE 2 * Pow2(k - 1)

FlipBit(b, k, bit) ==
    [b EXCEPT ![k] = IF (b[k] \div Pow2(bit)) % 2 = 1
                     THEN b[k] - Pow2(bit) ELSE b[k] + Pow2(bit)]

Truncations(b) == {SubSeq(b, 1, n) : n \in 0..(Len(b) - 1)}
BitFlips(b) == {FlipBit(b, k, bit) : k \in 1..Len(b), bit \in 0..7}
Damaged(b) == Truncations(b) \cup BitFlips(b)

\* The database file is damaged between the commit and the read: one blob
\* of one row, once.
CorruptStore ==
    /\ pc = "select"
    /\ store_intact
    /\ \E k \in 1..Len(compressed_data) :
           \E b \in Damaged(compressed_data[k].v[2].v) :
               compressed_data' =
                   [compressed_data EXCEPT
                       ![k] = PyTuple(<<compressed_data[k].v[1], PyBytes(b)>>)]
    /\ store_intact' = FALSE
    /\ UNCHANGED <<records, num_processes, pc, next_rec, grouped_records,
                   results_from_pool, compressed_rows, all_retrieved_records,
                   verification, exception, codec>>
    /\ UNCHANGED poolVars

FaultInputs == {Scenario} \cup {<<r>> : r \in Records}

InitFault ==
    /\ Init
    /\ records \in FaultInputs

NextFault == Next \/ CorruptStore

\* The program with a database file that may be damaged once.
SpecFault == InitFault /\ [][NextFault]_vars

(***************************************************************************)
(* The two worker functions on one group, with the blob possibly damaged   *)
(* in between.                                                             *)
(***************************************************************************)
\* The longest group.
MaxGroupLen == 2

CodecGroups ==
    {PyTuple(<<d, PyList([k \in 1..Len(q) |-> PyTuple(<<d>> \o q[k])])>>) :
        d \in Dates, q \in SeqsUpTo(Payloads, MaxGroupLen)}

InitCodec ==
    /\ records = <<>>
    /\ num_processes = 1
    /\ pc = "off"
    /\ next_rec = 0
    /\ grouped_records = <<>>
    /\ pool_func = "none"
    /\ pool_chunksize = 0
    /\ inqueue = <<>>
    /\ running = [w \in 1..num_processes |-> Idle]
    /\ outqueue = <<>>
    /\ map_value = <<>>
    /\ map_number_left = 0
    /\ map_success = TRUE
    /\ map_error = "none"
    /\ results_from_pool = <<>>
    /\ compressed_data = <<>>
    /\ store_intact = TRUE
    /\ compressed_rows = <<>>
    /\ all_retrieved_records = <<>>
    /\ verification = "none"
    /\ exception = "none"
    /\ \E g \in CodecGroups :
           codec = [pc |-> "start", group |-> g, row |-> None,
                    damaged |-> FALSE, result |-> Raise("none")]

Encode ==
    /\ codec.pc = "start"
    /\ codec' = [codec EXCEPT !.row = compress_group(codec.group).val,
                              !.pc = "encoded"]
    /\ UNCHANGED <<records, num_processes, pc, next_rec, grouped_records,
                   results_from_pool, compressed_data, store_intact,
                   compressed_rows, all_retrieved_records, verification,
                   exception>>
    /\ UNCHANGED poolVars

Damage ==
    /\ codec.pc = "encoded"
    /\ ~codec.damaged
    /\ \E b \in Damaged(codec.row.v[2].v) :
           codec' = [codec EXCEPT !.row = PyTuple(<<codec.row.v[1], PyBytes(b)>>),
                                  !.damaged = TRUE]
    /\ UNCHANGED <<records, num_processes, pc, next_rec, grouped_records,
                   results_from_pool, compressed_data, store_intact,
                   compressed_rows, all_retrieved_records, verification,
                   exception>>
    /\ UNCHANGED poolVars

Decode ==
    /\ codec.pc = "encoded"
    /\ codec' = [codec EXCEPT !.result = decompress_group(codec.row),
                              !.pc = "decoded"]
    /\ UNCHANGED <<records, num_processes, pc, next_rec, grouped_records,
                   results_from_pool, compressed_data, store_intact,
                   compressed_rows, all_retrieved_records, verification,
                   exception>>
    /\ UNCHANGED poolVars

NextCodec == Encode \/ Damage \/ Decode

SpecCodec == InitCodec /\ [][NextCodec]_vars

(***************************************************************************)
(* Properties                                                              *)
(***************************************************************************)
Range(q) == {q[k] : k \in 1..Len(q)}
Count(x, q) == Cardinality({k \in 1..Len(q) : q[k] = x})

\* a and b hold the same elements the same number of times.
SameBag(a, b) ==
    /\ Len(a) = Len(b)
    /\ \A x \in Range(a) \cup Range(b) : Count(x, a) = Count(x, b)

\* The records of q dated key, in the order of q.
WithDate(q, key) == SelectSeq(q, LAMBDA r : r.v[1] = key)

\* Where main is once the rows are committed.
AfterInsert ==
    {"select", "decompress_submit", "decompress_map", "flatten", "verify",
     "done"}

\* C1: for every input, duplicates included, the run does not fail, the
\* flattened records decoded from the stored rows are the input as a
\* multiset, and the verification prints success.
C1_RoundTrip ==
    /\ pc # "failed"
    /\ pc \in {"verify", "done"} => SameBag(all_retrieved_records, records)
    /\ pc = "done" => verification = "successful"

C1_Witness ==
    /\ pc = "done"
    /\ verification = "successful"
    /\ Len(records) >= 3
    /\ records[1] = records[2]
    /\ Len(grouped_records) >= 2

\* C2: decompress_group applied to what compress_group returned for a key
\* and its records returns a list of the same length with the same records
\* in the same order.
C2_PerGroupInverse ==
    (codec.pc = "decoded" /\ ~codec.damaged) =>
        /\ codec.result.ok
        /\ Len(codec.result.val.v) = Len(codec.group.v[2].v)
        /\ \A k \in 1..Len(codec.group.v[2].v) :
               codec.result.val.v[k] = codec.group.v[2].v[k]

C2_Witness ==
    /\ codec.pc = "decoded"
    /\ ~codec.damaged
    /\ codec.result.ok
    /\ Len(codec.group.v[2].v) = 2
    /\ codec.group.v[2].v[1] # codec.group.v[2].v[2]

\* C3: after every iteration of the grouping loop, and so after the loop,
\* the sizes of the groups sum to the number of records visited, no group
\* is empty, no two groups share a key, and every group holds exactly the
\* visited records of its own date, in input order.
C3_GroupingComplete ==
    LET seen == SubSeq(records, 1, next_rec)
        sizes == [k \in 1..Len(grouped_records) |->
                     Len(grouped_records[k].v[2].v)]
    IN  /\ SumRange(sizes, 1, Len(sizes)) = next_rec
        /\ \A k \in 1..Len(grouped_records) :
               /\ sizes[k] > 0
               /\ grouped_records[k].v[2].v =
                      WithDate(seen, grouped_records[k].v[1])
               /\ \A j \in 1..Len(grouped_records) :
                      grouped_records[j].v[1] = grouped_records[k].v[1] => j = k
        /\ \A n \in 1..next_rec : HasKey(grouped_records, records[n].v[1])

C3_Witness ==
    /\ pc = "compress_map"
    /\ next_rec = Len(records)
    /\ Len(grouped_records) >= 2
    /\ \E k \in 1..Len(grouped_records) : Len(grouped_records[k].v[2].v) >= 2

\* The chunks whose task is queued, held by a worker or waiting for the
\* result handler.
PendingChunks ==
    {inqueue[k].i : k \in 1..Len(inqueue)}
        \cup {running[w].i : w \in {x \in 1..num_processes : running[x] # Idle}}
        \cup {outqueue[k].i : k \in 1..Len(outqueue)}

PendingCount ==
    Len(inqueue) + Cardinality({w \in 1..num_processes : running[w] # Idle})
        + Len(outqueue)

\* The results of applying func to every item, one by one, in order.
EachResult(func, items) == [k \in 1..Len(items) |-> Apply(func, items[k]).val]

\* C4: while a map is in progress every chunk not yet collected is in
\* exactly one place (queued, with a worker, or on the result queue) and
\* the slots of the collected chunks, and only those, are filled; when the
\* map returns, the list holds exactly one result per submitted item.
C4_ExactlyOnce ==
    /\ pc \in {"compress_map", "decompress_map"} =>
           /\ PendingCount = map_number_left
           /\ Cardinality(PendingChunks) = PendingCount
           /\ \A k \in 1..Len(map_value) :
                  (map_value[k] = None)
                      <=> (((k - 1) \div pool_chunksize) \in PendingChunks)
    /\ pc = "insert" =>
           /\ Len(results_from_pool) = Len(grouped_records)
           /\ SameBag(results_from_pool,
                      EachResult("compress_group", grouped_records))
    /\ pc = "flatten" =>
           /\ Len(results_from_pool) = Len(compressed_rows)
           /\ SameBag(results_from_pool,
                      EachResult("decompress_group", compressed_rows))

\* A later chunk has been collected while an earlier one is still with a
\* worker.
C4_Witness ==
    /\ pc = "decompress_map"
    /\ Len(map_value) >= 2
    /\ map_value[1] = None
    /\ map_value[2] # None
    /\ \E w \in 1..num_processes : running[w] # Idle /\ running[w].i = 0

LibraryErrors ==
    {"zlib.error", "UnicodeDecodeError", "JSONDecodeError", "ValueError",
     "TypeError", "IndexError"}

ItemFails(func, items) == \E k \in 1..Len(items) : ~Apply(func, items[k]).ok

\* C6: when the transformation of an item fails in a worker, main never
\* gets past the dispatch: it is still in it or has ended with the
\* exception; no list of the results of the other items is returned, no
\* row is inserted (compression), nothing is flattened or verified
\* (decompression).
C6_FailurePropagation ==
    /\ (pc # "group" /\ ItemFails("compress_group", grouped_records)) =>
           /\ pc \in {"compress_map", "failed"}
           /\ results_from_pool = <<>>
           /\ compressed_data = <<>>
    /\ ItemFails("decompress_group", compressed_rows) =>
           /\ pc \in {"decompress_submit", "decompress_map", "failed"}
           /\ results_from_pool = EachResult("compress_group", grouped_records)
           /\ all_retrieved_records = <<>>
           /\ verification = "none"
    /\ pc = "failed" =>
           /\ exception # "none"
           /\ all_retrieved_records = <<>>
           /\ verification = "none"

\* main has ended with the worker's exception although another item of
\* the same dispatch had been decoded and collected.
C6_Witness ==
    /\ pc = "failed"
    /\ exception = "zlib.error"
    /\ ItemFails("decompress_group", compressed_rows)
    /\ \E k \in 1..Len(map_value) : map_value[k] # None

PoolQuiet ==
    /\ inqueue = <<>>
    /\ outqueue = <<>>
    /\ \A w \in 1..num_processes : running[w] = Idle
    /\ map_number_left = 0

\* C7: the insert starts only when the result of every group has been
\* collected, the flattening and the verification only when the result of
\* every stored row has been collected; outside the two dispatches no task
\* is queued, running or uncollected.
C7_FanInBarrier ==
    /\ pc \in {"insert", "select", "decompress_submit", "flatten", "verify",
               "done"} => PoolQuiet
    /\ pc = "insert" =>
           /\ Len(results_from_pool) = Len(grouped_records)
           /\ \A k \in 1..Len(results_from_pool) : results_from_pool[k] # None
    /\ pc \in AfterInsert => Len(compressed_data) = Len(grouped_records)
    /\ pc = "flatten" =>
           /\ Len(results_from_pool) = Len(compressed_rows)
           /\ \A k \in 1..Len(results_from_pool) : results_from_pool[k] # None
    /\ pc \in {"verify", "done"} =>
           Len(all_retrieved_records) = Len(records)

C7_Witness ==
    /\ pc = "flatten"
    /\ PoolQuiet
    /\ num_processes >= 2
    /\ Len(compressed_rows) >= 3

\* What the map returns with a single worker: the tasks are taken, run
\* and collected one after the other.
RECURSIVE RunInOrder(_, _)
RunInOrder(func, tasks) ==
    IF Len(tasks) = 0 THEN <<>>
    ELSE MapStar(func, tasks[1].chunk, <<>>).val
             \o RunInOrder(func, Tail(tasks))

SingleWorkerMap(func, items) ==
    RunInOrder(func, GetTasks(items, ChunkSize(Len(items), 1)))

\* C8: whatever the number of workers and the interleaving, the set of
\* (key, blob) results of the compression dispatch and the multiset of
\* records of the decompression dispatch are those a single worker
\* produces.
C8_WorkerCountIndependent ==
    /\ pc = "insert" =>
           Range(results_from_pool) =
               Range(SingleWorkerMap("compress_group", grouped_records))
    /\ pc = "flatten" =>
           SameBag(Flatten(results_from_pool),
                   Flatten(SingleWorkerMap("decompress_group", compressed_rows)))

C8_Witness ==
    /\ pc = "flatten"
    /\ num_processes >= 2
    /\ Len(compressed_rows) >= 2
    /\ Len(Flatten(results_from_pool)) >= 3

\* C9: with no input record there is no group, no task, no (key, blob)
\* pair, no stored row and no reconstructed record; neither dispatch
\* blocks or fails, and the verification prints success.
C9_EmptyInput ==
    records = <<>> =>
        /\ grouped_records = <<>>
        /\ inqueue = <<>>
        /\ map_value = <<>>
        /\ results_from_pool = <<>>
        /\ compressed_data = <<>>
        /\ compressed_rows = <<>>
        /\ all_retrieved_records = <<>>
        /\ pc # "failed"
        /\ pc \in {"compress_map", "decompress_map"} => MapReady
        /\ pc = "done" => verification = "successful"

C9_Witness ==
    /\ records = <<>>
    /\ pc = "done"
    /\ verification = "successful"
    /\ pool_func = "decompress_group"

\* C10: once the rows are written the table holds one row per distinct
\* date of the input, no two rows share a key, and the blob of every row
\* decodes to exactly the input records of the row's date, in input order.
C10_KeyBlobAssociation ==
    pc \in AfterInsert =>
        /\ Len(compressed_data) =
               Cardinality({records[n].v[1] : n \in 1..Len(records)})
        /\ \A k \in 1..Len(compressed_data) :
               LET key == convert_date(compressed_data[k].v[1])
                   decoded ==
                       decompress_group(
                           PyTuple(<<key.val, compressed_data[k].v[2]>>))
               IN  /\ key.ok
                   /\ decoded.ok
                   /\ Len(decoded.val.v) > 0
                   /\ \A n \in 1..Len(decoded.val.v) :
                          decoded.val.v[n].v[1] = key.val
                   /\ decoded.val.v = WithDate(records, key.val)
                   /\ \A j \in 1..Len(compressed_data) :
                          compressed_data[j].v[1] = compressed_data[k].v[1]
                              => j = k

C10_Witness ==
    /\ pc = "select"
    /\ num_processes >= 2
    /\ Len(compressed_data) = 3
    /\ Len(records) = 3

=============================================================================
